---- MODULE Spec2Model ----
(***************************************************************************)
(* Model of ttkwidgets/hook.py: hook_ttk_widgets() retrofits extra options *)
(* onto ttk.Widget by replacing __init__, configure, config, cget and keys *)
(* on the class.                                                           *)
(*                                                                         *)
(* Python strings are sequences of one-character strings, so that sorted() *)
(* "_".join() and str.lower() are computed and not assumed.  A dict is a   *)
(* function whose DOMAIN is its key set.  A function object installed on   *)
(* the class is the index of its closure in `closures` (0: the toolkit's   *)
(* own implementation).  The model follows one widget instance at a time   *)
(* (widgets share no instance state); a new construction replaces it.      *)
(***************************************************************************)
EXTENDS Integers, Sequences, FiniteSets, TLC

VARIABLES
    ttkWidget,  \* the class ttk.Widget: its five hookable methods and the capsules set on it
    closures,   \* closure variables (name, options, updater) of every installed hook, in install order
    w,          \* the widget instance under observation (id 0: none constructed yet)
    last        \* the most recent call: its arguments, the events it caused in order, its outcome

vars == <<ttkWidget, closures, w, last>>

(* ---------------------------------------------------------------- bounds *)

\* how many hooks the environment gets installed in one run
MaxHooks == 2

(* --------------------------------------------------------------- strings *)

\* the characters in use, in code point order
Alphabet == <<"A", "H", "W", "_", "a", "b", "d", "e", "g", "h", "i", "k", "o", "t", "w", "x">>

Ord(c) == CHOOSE i \in 1..Len(Alphabet) : Alphabet[i] = c

\* str.lower(), character by character
LowerChar(c) ==
    CASE c = "A" -> "a"
      [] c = "H" -> "h"
      [] c = "W" -> "w"
      [] OTHER   -> c

lower(s) == [i \in 1..Len(s) |-> LowerChar(s[i])]

\* Python's < on str: lexicographic by code point, a proper prefix first
RECURSIVE StrLess(_, _)
StrLess(s, t) ==
    IF t = <<>> THEN FALSE
    ELSE IF s = <<>> THEN TRUE
    ELSE IF s[1] # t[1] THEN Ord(s[1]) < Ord(t[1])
    ELSE StrLess(Tail(s), Tail(t))

\* sorted(iterable of str)
RECURSIVE sorted(_)
sorted(S) ==
    IF S = {} THEN <<>>
    ELSE LET m == CHOOSE x \in S : \A y \in S \ {x} : StrLess(x, y)
         IN  <<m>> \o sorted(S \ {m})

\* sep.join(list of str)
RECURSIVE join(_, _)
join(sep, l) ==
    IF l = <<>> THEN <<>>
    ELSE IF Len(l) = 1 THEN l[1]
    ELSE l[1] \o sep \o join(sep, Tail(l))

HookPrefix == <<"W", "i", "d", "g", "e", "t", "H", "o", "o", "k", "_">>

generate_hook_name(options) == HookPrefix \o join(<<"_">>, sorted(DOMAIN options))

(* ----------------------------------------------------------------- dicts *)

EmptyDict == <<>>

\* d with the keys in K removed (dict.pop of each)
Without(d, K) == [k \in DOMAIN d \ K |-> d[k]]

\* d[k] = v
SetItem(d, k, v) == [x \in DOMAIN d \cup {k} |-> IF x = k THEN v ELSE d[x]]

\* dict.pop(k, default): the value only
PopValue(d, k, default) == IF k \in DOMAIN d THEN d[k] ELSE default

\* dict.update
Update(d, e) == [x \in DOMAIN d \cup DOMAIN e |-> IF x \in DOMAIN e THEN e[x] ELSE d[x]]

\* a positional argument of configure: None, or a dict
None == [none |-> TRUE, d |-> EmptyDict]
Dict(d) == [none |-> FALSE, d |-> d]

\* the order in which a dict's keys are visited
IterOrder(d) == sorted(DOMAIN d)

(* ------------------------------------------------------- the environment *)

\* option values a caller passes; NULL is the sentinel object() and is none of them
Values == {1, 2}
NULL == 0

s_a    == <<"a">>
s_A    == <<"A">>
s_A_a  == <<"A", "_", "a">>
s_text == <<"t", "e", "x", "t">>

\* the updater callbacks the environment passes
Updaters == {"u1", "u2", "u3"}

\* the calls hook_ttk_widgets(updater, options) the environment makes
InstallCalls ==
    { [updater |-> "u1", options |-> (s_a :> 1)],
      [updater |-> "u2", options |-> (s_A :> 2)],
      [updater |-> "u3", options |-> (s_A_a :> 1)],
      [updater |-> "u1", options |-> (s_A_a :> 2)],
      [updater |-> "u2", options |-> (s_A :> 1 @@ s_a :> 2)] }

\* every option name some call declares, and the options Tk itself knows
OptionNames == UNION {DOMAIN c.options : c \in InstallCalls}
NativeKeys == {s_text}
Keys == OptionNames \cup NativeKeys

\* what Tk answers for an option it knows before anyone has set it
TkDefault(key) == 1

(* ------------------------------------------------------------- exceptions *)

\* A frame is the state a call runs in: the instance, the events so far, the
\* exception in flight ("" for none) and the value returned.
Frame(self, events) == [self |-> self, events |-> events, err |-> "", ret |-> "None"]

Raise(st, exc) == [st EXCEPT !.err = exc]

Return(st, value) == [st EXCEPT !.ret = value]

(* ------------------------------------------------- toolkit-native methods *)

\* ttk.Widget.__init__ as shipped: creates the Tk widget with the options kw
native_init(st, kw) ==
    LET st1 == [st EXCEPT !.events = Append(@, [ev |-> "native_init", kw |-> kw])]
    IN  IF DOMAIN kw \subseteq NativeKeys
        THEN [st1 EXCEPT !.self.native =
                 [k \in NativeKeys |-> IF k \in DOMAIN kw THEN kw[k] ELSE TkDefault(k)]]
        ELSE Raise(st1, "TclError")

\* ttk.Widget.configure / config as shipped: cnf (None or a dict) merged with kw
native_configure(st, args, kw) ==
    LET cnf  == IF args = <<>> \/ args[1].none THEN EmptyDict ELSE args[1].d
        opts == Update(cnf, kw)
        st1  == [st EXCEPT !.events =
                    Append(@, [ev |-> "native_configure", args |-> args, kw |-> kw])]
    IN  IF DOMAIN opts \subseteq NativeKeys
        THEN Return([st1 EXCEPT !.self.native = Update(@, opts)],
                    IF opts = EmptyDict THEN "listing" ELSE "None")
        ELSE Raise(st1, "TclError")

\* ttk.Widget.cget as shipped
native_cget(st, key) ==
    LET st1 == [st EXCEPT !.events = Append(@, [ev |-> "native_cget", key |-> key])]
    IN  IF key \in NativeKeys THEN Return(st1, st.self.native[key])
        ELSE Raise(st1, "TclError")

\* ttk.Widget.keys as shipped
native_keys(st) ==
    Return([st EXCEPT !.events = Append(@, [ev |-> "native_keys"])], sorted(NativeKeys))

(* ------------------------------------------------------ the hook's code *)

\* getattr(self, name): the capsule class OriginalFunctions set on ttk.Widget
Capsule(name) == ttkWidget.attrs[name]

\* a getter that answers the declared default when the store has no value
getter_default(st, f, option) ==
    LET attr == lower(closures[f].name)
    IN  IF attr \notin DOMAIN st.self.attrs
        THEN [err |-> "AttributeError", val |-> NULL]
        ELSE LET store == st.self.attrs[attr]
             IN  [err |-> "", val |-> IF option \in DOMAIN store THEN store[option]
                                      ELSE closures[f].options[option]]

\* getter(self, option) of hook f: the stored value, NULL when the store has
\* none; getattr(self, name.lower()) raises when the instance has no store.
getter(st, f, option) ==
    LET attr == lower(closures[f].name)
    IN  IF attr \notin DOMAIN st.self.attrs
        THEN [err |-> "AttributeError", val |-> NULL]
        ELSE LET store == st.self.attrs[attr]
             IN  [err |-> "", val |-> IF option \in DOMAIN store THEN store[option] ELSE NULL]

RECURSIVE CallInit(_, _, _)
RECURSIVE CallConfigure(_, _, _, _)
RECURSIVE CallCget(_, _, _)
RECURSIVE CallKeys(_, _, _)

\* what a call made on the widget from inside a callback comes to
Outcome(r) == [err |-> r.err, ret |-> r.ret]

\* the call updater(self, option, value), recorded with what the callback
\* would find on the instance at that moment: which stores are attached, what
\* this hook's getter returns for the option, and what self.cget(option) and
\* a self.configure() without options would come to
CallUpdater(st, f, option, value) ==
    [st EXCEPT !.events = Append(@,
        [ev |-> "update", layer |-> f, updater |-> closures[f].updater,
         option |-> option, value |-> value,
         stores |-> DOMAIN st.self.attrs, stored |-> getter(st, f, option).val,
         cget |-> Outcome(CallCget(ttkWidget.cget, st, option)),
         reenter |-> CallConfigure(ttkWidget.configure, st, <<>>, EmptyDict).err])]

\* a setter that notifies first and stores afterwards
setter_notify_first(st, f, option, value, current) ==
    IF current.err # "" THEN Raise(st, current.err)
    ELSE IF current.val # value
    THEN [CallUpdater(st, f, option, value)
             EXCEPT !.self.attrs[lower(closures[f].name)] = SetItem(@, option, value)]
    ELSE st

\* setter, lines 93-95: store and notify when the value differs
setter_store(st, f, option, value, current) ==
    IF current.err # "" THEN Raise(st, current.err)
    ELSE IF current.val # value
    THEN CallUpdater([st EXCEPT !.self.attrs[lower(closures[f].name)] =
                                    SetItem(@, option, value)],
                     f, option, value)
    ELSE st

\* setter(self, option, value) of hook f
setter(st, f, option, value) == setter_store(st, f, option, value, getter(st, f, option))

\* a loop over the values that ends after its first option
SetAll_one(st, f, order, values) ==
    IF order = <<>> \/ st.err # "" THEN st
    ELSE setter(st, f, order[1], values[order[1]])

\* for option, value in values.items(): setter(self, option, value)
RECURSIVE SetAll(_, _, _, _)
SetAll(st, f, order, values) ==
    IF order = <<>> \/ st.err # "" THEN st
    ELSE SetAll(setter(st, f, order[1], values[order[1]]), f, Tail(order), values)

\* a hook's replacement of a method is entered
Enter(st, f, op) == [st EXCEPT !.events = Append(@, [ev |-> "enter", layer |-> f, op |-> op])]

\* __init__, lines 111-115: once original_init has returned st1, attach a fresh
\* store and hand every chosen value to the setter; an exception passes through
init_after(f, st1, values) ==
    IF st1.err # "" THEN st1
    ELSE SetAll([st1 EXCEPT !.self.attrs = SetItem(@, lower(closures[f].name), EmptyDict),
                            !.events = Append(@, [ev |-> "attach", layer |-> f,
                                                  attr |-> lower(closures[f].name)])],
                f, IterOrder(values), values)

\* an __init__ that stores and reports its values first and constructs after
hook_init_before(f, st, widget_options) ==
    CallInit(Capsule(closures[f].name).original_init,
             init_after(f, Enter(st, f, "init"),
                 [o \in DOMAIN closures[f].options |->
                     PopValue(widget_options, o, closures[f].options[o])]),
             Without(widget_options, DOMAIN closures[f].options))

\* __init__(self, master, widget, widget_options) of hook f
hook_init(f, st, widget_options) ==
    init_after(f,
        CallInit(Capsule(closures[f].name).original_init, Enter(st, f, "init"),
                 Without(widget_options, DOMAIN closures[f].options)),
        [o \in DOMAIN closures[f].options |->
            PopValue(widget_options, o, closures[f].options[o])])

\* configure, lines 123-125: one option of the hook against one group
configure_option(st, f, option, d, current) ==
    IF current.err # "" THEN Raise(st, current.err)
    ELSE setter(st, f, option, PopValue(d, option, current.val))

\* an inner loop that reads the hook's options and leaves them in the group
RECURSIVE ConfigureGroup_keep(_, _, _, _)
ConfigureGroup_keep(st, f, order, d) ==
    IF order = <<>> \/ st.err # "" THEN [st |-> st, d |-> d]
    ELSE ConfigureGroup_keep(configure_option(st, f, order[1], d, getter(st, f, order[1])),
                             f, Tail(order), d)

\* configure, lines 122-125: the inner loop over one group of options; every
\* option of the hook is popped out of the group and handed to the setter
RECURSIVE ConfigureGroup(_, _, _, _)
ConfigureGroup(st, f, order, d) ==
    IF order = <<>> \/ st.err # "" THEN [st |-> st, d |-> d]
    ELSE ConfigureGroup(configure_option(st, f, order[1], d, getter(st, f, order[1])),
                        f, Tail(order), Without(d, {order[1]}))

\* the groups again, as they are passed on: arg in front of the rest
PrependArg(arg, r) == [st |-> r.st, args |-> <<arg>> \o r.args]

\* configure, lines 119-121: the outer loop over the positional groups; a
\* group that is None is skipped
RECURSIVE ConfigureArgs(_, _, _)
RECURSIVE ConfigureArgsAfter(_, _, _)
ConfigureArgs(st, f, args) ==
    IF args = <<>> \/ st.err # "" THEN [st |-> st, args |-> args]
    ELSE IF args[1].none
    THEN PrependArg(args[1], ConfigureArgs(st, f, Tail(args)))
    ELSE ConfigureArgsAfter(f, ConfigureGroup(st, f, IterOrder(closures[f].options),
                                              args[1].d), Tail(args))

ConfigureArgsAfter(f, g, rest) == PrependArg(Dict(g.d), ConfigureArgs(g.st, f, rest))

\* configure, line 126: delegate what is left to original_configure
configure_delegate(f, k, args) ==
    IF k.st.err # "" THEN k.st
    ELSE CallConfigure(Capsule(closures[f].name).original_configure, k.st, args, k.d)

\* configure, line 119: kwargs is the last group
configure_kwargs(f, a, kwargs) ==
    configure_delegate(f, ConfigureGroup(a.st, f, IterOrder(closures[f].options), kwargs),
                       a.args)

\* the keyword group handled, then the positional groups
configure_after_kwargs(f, g, args) ==
    configure_delegate(f, [st |-> ConfigureArgs(g.st, f, args).st, d |-> g.d],
                       ConfigureArgs(g.st, f, args).args)

\* a configure that applies the keyword group before the positional groups
configure_kwargs_first(f, st, args, kwargs) ==
    configure_after_kwargs(f,
        ConfigureGroup(Enter(st, f, "configure"), f, IterOrder(closures[f].options), kwargs),
        args)

\* configure(self, *args, **kwargs) of hook f, also installed as config
configure(f, st, args, kwargs) ==
    configure_kwargs(f, ConfigureArgs(Enter(st, f, "configure"), f, args), kwargs)

\* cget, line 131
cget_own(st, v) == IF v.err # "" THEN Raise(st, v.err) ELSE Return(st, v.val)

\* a cget that hands every key to original_cget
cget_delegating(f, st, key) ==
    CallCget(Capsule(closures[f].name).original_cget, st, key)

\* cget(self, key) of hook f
cget(f, st, key) ==
    IF key \in DOMAIN closures[f].options
    THEN cget_own(st, getter(st, f, key))
    ELSE CallCget(Capsule(closures[f].name).original_cget, st, key)

\* keys, lines 137-138: extend what original_keys returned
keys_extend(f, r) ==
    IF r.err # "" THEN r ELSE Return(r, r.ret \o IterOrder(closures[f].options))

\* keys(self) of hook f: original_keys is called with no argument at all
keys(f, st) == keys_extend(f, CallKeys(Capsule(closures[f].name).original_keys, st, 0))

\* calling a function object that sits on the class (0 is Tk's own)
CallInit(fn, st, kw) ==
    IF fn = 0 THEN native_init(st, kw) ELSE hook_init(fn, st, kw)

CallConfigure(fn, st, args, kw) ==
    IF fn = 0 THEN native_configure(st, args, kw) ELSE configure(fn, st, args, kw)

CallCget(fn, st, key) ==
    IF fn = 0 THEN native_cget(st, key) ELSE cget(fn, st, key)

\* keys takes self and nothing else: any other number of arguments is a TypeError
CallKeys(fn, st, argc) ==
    IF argc # 1 THEN Raise(st, "TypeError")
    ELSE IF fn = 0 THEN native_keys(st) ELSE keys(fn, st)

\* an is_hooked that looks the name up in lower case
is_hooked_lower(options) == lower(generate_hook_name(options)) \in DOMAIN ttkWidget.attrs

\* is_hooked(options): hasattr(ttk.Widget, generate_hook_name(options))
is_hooked(options) == generate_hook_name(options) \in DOMAIN ttkWidget.attrs

(* ------------------------------------------------------------ the inputs *)

\* the values a caller passes for an option: Values for a declared one, one
\* value for a native one
ValuesOf(k) == IF k \in NativeKeys THEN {TkDefault(k)} ELSE Values

\* the dicts of options a caller passes in one group: none, one, or (at
\* construction) a declared option next to a native one
Singles == UNION {{k :> v : v \in ValuesOf(k)} : k \in Keys}
Pairs == {p[1] @@ p[2] : p \in {q \in Singles \X Singles :
                                    /\ DOMAIN q[1] \subseteq OptionNames
                                    /\ DOMAIN q[2] \subseteq NativeKeys}}
OptionDicts == {EmptyDict} \cup Singles

\* the positional part of a configure call: nothing, None, or one dict
PositionalArgs == {<<>>, <<None>>} \cup {<<Dict(d)>> : d \in Singles}

\* the calls widget.configure(*args, **kw) the environment makes: when both
\* groups carry an option they carry the same one, or one of the two is native
ConfigureCalls ==
    {c \in [args : PositionalArgs, kw : OptionDicts] :
        \/ c.args = <<>> \/ c.args[1].none \/ c.kw = EmptyDict
        \/ DOMAIN c.args[1].d = DOMAIN c.kw
        \/ DOMAIN c.args[1].d \subseteq NativeKeys
        \/ DOMAIN c.kw \subseteq NativeKeys}

NoWidget == [id |-> 0, born |-> 0, attrs |-> EmptyDict, native |-> EmptyDict]

\* the instance __init__ receives: no attribute yet; born counts the hooks
\* installed when it is constructed
NewWidget == [id |-> 1, born |-> Len(closures), attrs |-> EmptyDict, native |-> EmptyDict]

(* ------------------------------------------------------------ the actions *)

Init ==
    /\ ttkWidget = [init |-> 0, config |-> 0, configure |-> 0, cget |-> 0, keys |-> 0,
                    attrs |-> EmptyDict]
    /\ closures = <<>>
    /\ w = NoWidget
    /\ last = [op |-> "start"]

\* a hook_ttk_widgets whose repeated call hands the hook the new updater and defaults
hook_ttk_widgets_overwrite(updater, options) ==
    LET name == generate_hook_name(options)
        f    == Len(closures) + 1
        OriginalFunctions ==
            [original_init      |-> ttkWidget.init,
             original_config    |-> ttkWidget.config,
             original_configure |-> ttkWidget.configure,
             original_cget      |-> ttkWidget.cget,
             original_keys      |-> ttkWidget.keys]
    IN  /\ Cardinality(DOMAIN options) > 0
        /\ name \in DOMAIN ttkWidget.attrs \/ Len(closures) < MaxHooks
        /\ IF name \in DOMAIN ttkWidget.attrs
           THEN /\ UNCHANGED ttkWidget
                /\ closures' = [g \in DOMAIN closures |->
                                   IF closures[g].name = name
                                   THEN [name |-> name, options |-> options, updater |-> updater]
                                   ELSE closures[g]]
                /\ last' = [op |-> "install", updater |-> updater, options |-> options,
                            ret |-> name, created |-> FALSE]
           ELSE /\ closures' = Append(closures,
                       [name |-> name, options |-> options, updater |-> updater])
                /\ ttkWidget' = [init |-> f, config |-> f, configure |-> f, cget |-> f,
                                 keys |-> f,
                                 attrs |-> SetItem(ttkWidget.attrs, name, OriginalFunctions)]
                /\ last' = [op |-> "install", updater |-> updater, options |-> options,
                            ret |-> name, created |-> TRUE]
        /\ UNCHANGED w

\* a hook_ttk_widgets whose capsule holds the toolkit's own functions, whatever
\* is on the class when it is called
hook_ttk_widgets_flat(updater, options) ==
    LET name == generate_hook_name(options)
        f    == Len(closures) + 1
        OriginalFunctions ==
            [original_init      |-> 0,
             original_config    |-> 0,
             original_configure |-> 0,
             original_cget      |-> 0,
             original_keys      |-> 0]
    IN  /\ Cardinality(DOMAIN options) > 0
        /\ name \in DOMAIN ttkWidget.attrs \/ Len(closures) < MaxHooks
        /\ IF name \in DOMAIN ttkWidget.attrs
           THEN /\ UNCHANGED <<ttkWidget, closures>>
                /\ last' = [op |-> "install", updater |-> updater, options |-> options,
                            ret |-> name, created |-> FALSE]
           ELSE /\ closures' = Append(closures,
                       [name |-> name, options |-> options, updater |-> updater])
                /\ ttkWidget' = [init |-> f, config |-> f, configure |-> f, cget |-> f,
                                 keys |-> f,
                                 attrs |-> SetItem(ttkWidget.attrs, name, OriginalFunctions)]
                /\ last' = [op |-> "install", updater |-> updater, options |-> options,
                            ret |-> name, created |-> TRUE]
        /\ UNCHANGED w

\* hook_ttk_widgets(updater, options)
hook_ttk_widgets(updater, options) ==
    LET name == generate_hook_name(options)
        f    == Len(closures) + 1
        OriginalFunctions ==
            [original_init      |-> ttkWidget.init,
             original_config    |-> ttkWidget.config,
             original_configure |-> ttkWidget.configure,
             original_cget      |-> ttkWidget.cget,
             original_keys      |-> ttkWidget.keys]
    IN  /\ Cardinality(DOMAIN options) > 0
        /\ name \in DOMAIN ttkWidget.attrs \/ Len(closures) < MaxHooks
        /\ IF name \in DOMAIN ttkWidget.attrs
           THEN /\ UNCHANGED <<ttkWidget, closures>>
                /\ last' = [op |-> "install", updater |-> updater, options |-> options,
                            ret |-> name, created |-> FALSE]
           ELSE /\ closures' = Append(closures,
                       [name |-> name, options |-> options, updater |-> updater])
                /\ ttkWidget' = [init |-> f, config |-> f, configure |-> f, cget |-> f,
                                 keys |-> f,
                                 attrs |-> SetItem(ttkWidget.attrs, name, OriginalFunctions)]
                /\ last' = [op |-> "install", updater |-> updater, options |-> options,
                            ret |-> name, created |-> TRUE]
        /\ UNCHANGED w

Install == \E c \in InstallCalls : hook_ttk_widgets(c.updater, c.options)

\* ttk.Button(master, **kw): ttk.Widget.__init__(self, master, "ttk::button", kw)
Construct ==
    \E kw \in OptionDicts \cup Pairs :
        \E r \in {CallInit(ttkWidget.init, Frame(NewWidget, <<>>), kw)} :
            /\ w' = IF r.err = "" THEN r.self ELSE w
            /\ last' = [op |-> "construct", kw |-> kw,
                        events |-> r.events, err |-> r.err]
            /\ UNCHANGED <<ttkWidget, closures>>

\* widget.configure(*args, **kw)
Configure ==
    /\ w.id # 0
    /\ \E c \in ConfigureCalls :
         \E r \in {CallConfigure(ttkWidget.configure, Frame(w, <<>>), c.args, c.kw)} :
            /\ w' = r.self
            /\ last' = [op |-> "configure", args |-> c.args, kw |-> c.kw,
                        events |-> r.events, err |-> r.err, ret |-> r.ret]
    /\ UNCHANGED <<ttkWidget, closures>>

\* widget.config(**kw), the other entry point
Config ==
    /\ w.id # 0
    /\ \E kw \in OptionDicts :
         \E r \in {CallConfigure(ttkWidget.config, Frame(w, <<>>), <<>>, kw)} :
            /\ w' = r.self
            /\ last' = [op |-> "config", args |-> <<>>, kw |-> kw,
                        events |-> r.events, err |-> r.err, ret |-> r.ret]
    /\ UNCHANGED <<ttkWidget, closures>>

\* widget.cget(key)
Cget ==
    /\ w.id # 0
    /\ \E key \in Keys :
         \E r \in {CallCget(ttkWidget.cget, Frame(w, <<>>), key)} :
            /\ w' = r.self
            /\ last' = [op |-> "cget", key |-> key,
                        events |-> r.events, err |-> r.err, ret |-> r.ret]
    /\ UNCHANGED <<ttkWidget, closures>>

\* widget.keys()
KeysCall ==
    /\ w.id # 0
    /\ \E r \in {CallKeys(ttkWidget.keys, Frame(w, <<>>), 1)} :
            /\ w' = r.self
            /\ last' = [op |-> "keys",
                        events |-> r.events, err |-> r.err, ret |-> r.ret]
    /\ UNCHANGED <<ttkWidget, closures>>

Next == Install \/ Construct \/ Configure \/ Config \/ Cget \/ KeysCall

Spec == Init /\ [][Next]_vars

(* ------------------------------------------- vocabulary of the properties *)

\* the installed hooks, innermost first: hook f wraps what hooks 1..f-1 left
Layers == 1..Len(closures)

\* the option names hook f declares
Declared(f) == DOMAIN closures[f].options

AllDeclared == UNION {Declared(f) : f \in Layers}

\* the hook in force for a declared option: the outermost one that declares it
Owner(o) == CHOOSE f \in Layers : o \in Declared(f) /\ \A g \in Layers : o \in Declared(g) => g <= f

\* the instance attribute under which hook f keeps its store
StoreAttr(f) == lower(closures[f].name)

\* no other hook attaches its store under the same attribute
OwnStore(f) == \A g \in Layers \ {f} : StoreAttr(g) # StoreAttr(f)

\* the values hook f's updater was called with for option o, in order
RECURSIVE UpdateValues(_, _, _)
UpdateValues(events, f, o) ==
    IF events = <<>> THEN <<>>
    ELSE (IF /\ events[1].ev = "update"
             /\ events[1].layer = f
             /\ events[1].option = o
          THEN <<events[1].value>> ELSE <<>>) \o UpdateValues(Tail(events), f, o)

\* the positions in a call's events of the events of one kind
Positions(events, kind) == {i \in DOMAIN events : events[i].ev = kind}

\* widget.cget(key) asked of the widget as it is now
QueryNow(key) == CallCget(ttkWidget.cget, Frame(w, <<>>), key)

\* the values one configure call supplies for option o, positional group first
Supplied(call, o) ==
    (IF call.args # <<>> /\ ~call.args[1].none /\ o \in DOMAIN call.args[1].d
     THEN <<call.args[1].d[o]>> ELSE <<>>)
    \o (IF o \in DOMAIN call.kw THEN <<call.kw[o]>> ELSE <<>>)

IsConfigure(call) == call.op \in {"configure", "config"}

(* ------------------------------------------------------------------ C1 *)

\* C1: on a widget constructed after a hook was installed, a configure call
\* that supplies (once) the value a declared option already holds calls the
\* hook's updater zero times and leaves the stored value as it is; one that
\* supplies a different value V calls it exactly once, with that option and
\* V, and cget of the option then returns V.
C1Step ==
    IsConfigure(last') =>
        \A f \in Layers : \A o \in Declared(f) :
            (w.born >= f /\ Owner(o) = f /\ Len(Supplied(last', o)) = 1) =>
                LET V    == Supplied(last', o)[1]
                    held == getter(Frame(w, <<>>), f, o)
                    now  == CallCget(ttkWidget.cget, Frame(w', <<>>), o)
                IN  IF held.err = "" /\ held.val = V
                    THEN /\ UpdateValues(last'.events, f, o) = <<>>
                         /\ now.err = "" /\ now.ret = V
                    ELSE /\ UpdateValues(last'.events, f, o) = <<V>>
                         /\ now.err = "" /\ now.ret = V

C1_ReconfigureNotifiesOnChange == [][C1Step]_vars

(* ------------------------------------------------------------------ C2 *)

C3_DefaultWhenOmitted ==
    (last.op = "construct" /\ last.err = "") =>
        \A f \in Layers : \A o \in Declared(f) \ DOMAIN last.kw :
            Owner(o) = f =>
                QueryNow(o).err = "" /\ QueryNow(o).ret = closures[f].options[o]

(* ------------------------------------------------------------------ C4 *)

\* C4: during a construction no updater of any hook is called before the
\* toolkit's own construction of the widget has completed, however many hooks
\* are installed: every updater call comes after the one native construction,
\* and there is none when that construction fails.
C4_NoUpdateBeforeNativeInit ==
    last.op = "construct" =>
        /\ Cardinality(Positions(last.events, "native_init")) = 1
        /\ \A i \in Positions(last.events, "update") :
              \A j \in Positions(last.events, "native_init") : j < i
        /\ last.err # "" => Positions(last.events, "update") = {}

\* a construction under two hooks in which the updaters of both ran
C4_Witness ==
    /\ last.op = "construct" /\ Len(closures) = 2
    /\ \A f \in Layers : \E i \in Positions(last.events, "update") : last.events[i].layer = f

(* ------------------------------------------------------------------ C5 *)

\* the value hook f's construction layer chooses for option o: what the caller
\* supplied, unless a hook installed later has taken the option out already,
\* and the declared default when nothing was supplied
Chosen(f, o) ==
    IF o \in DOMAIN last.kw /\ \A g \in Layers : g > f => o \notin Declared(g)
    THEN last.kw[o] ELSE closures[f].options[o]

Range(seq) == {seq[i] : i \in DOMAIN seq}

\* C6: on a widget constructed after a hook was installed, keys() returns a
\* list that holds every key the toolkit's own keys() lists and every option
\* name declared by every installed hook.
C6_KeysListDeclaredOptions ==
    (last.op = "keys" /\ w.born >= 1) =>
        /\ last.err = ""
        /\ NativeKeys \cup AllDeclared \subseteq Range(last.ret)

(* ------------------------------------------------------------------ C7 *)

\* C7: when hook_ttk_widgets(updater, m) has returned, is_hooked(m) is true,
\* and whatever is true of is_hooked stays true through every later install,
\* construction, configure, cget and keys call (is_hooked reads the class and
\* nothing else, so a step that leaves the class alone leaves it alone).
C7Step ==
    /\ last'.op = "install" =>
          \A c \in InstallCalls : last'.options = c.options => is_hooked(c.options)'
    /\ ttkWidget' # ttkWidget =>
          \A c \in InstallCalls : is_hooked(c.options) => is_hooked(c.options)'

C7_HookedForGood == [][C7Step]_vars

\* a widget has been constructed and used under two hooks that are still there
C7_Witness ==
    /\ last.op \in {"configure", "config", "cget", "keys"}
    /\ Len(closures) = 2
    /\ \A f \in Layers : \E c \in InstallCalls :
          c.options = closures[f].options /\ is_hooked(c.options)

(* ------------------------------------------------------------------ C8 *)

\* C8: a call of hook_ttk_widgets whose options have the option names of an
\* installed hook returns that hook's name and changes nothing: the class with
\* its capsules and its five methods, the chain of hooks with the updater and
\* the defaults of each, and the widget are what they were, so value changes
\* go on being reported to the first call's updater alone.
C8Step ==
    (last'.op = "install" /\ \E f \in Layers : Declared(f) = DOMAIN last'.options) =>
        /\ \E f \in Layers : Declared(f) = DOMAIN last'.options /\ last'.ret = closures[f].name
        /\ ~last'.created
        /\ ttkWidget' = ttkWidget
        /\ closures' = closures
        /\ w' = w

C8_RepeatedInstallChangesNothing == [][C8Step]_vars

\* a repeated install that came with another updater and other defaults
C8_Witness ==
    /\ last.op = "install" /\ ~last.created
    /\ \E f \in Layers :
        /\ Declared(f) = DOMAIN last.options
        /\ closures[f].options # last.options
        /\ closures[f].updater # last.updater

(* ------------------------------------------------------------------ C9 *)

\* C9: the hook name is one per set of option names, underscores in the names
\* included: is_hooked(m) is true only when a hook with exactly the option
\* names of m has been installed, and hook_ttk_widgets(updater, m) returns
\* without installing only then.
C9_NameUniquePerOptionSet ==
    /\ \A c \in InstallCalls :
          is_hooked(c.options) => \E f \in Layers : Declared(f) = DOMAIN c.options
    /\ (last.op = "install" /\ ~last.created) =>
          \E f \in Layers : Declared(f) = DOMAIN last.options

(* ------------------------------------------------------------------ C10 *)

\* the options in dict d that are not declared, as the caller passed them
Kept(d, passed, K) == \A k \in DOMAIN passed \ K : k \in DOMAIN d /\ d[k] = passed[k]

\* C10: once hook_ttk_widgets(updater, options) has returned, the options that
\* reach the toolkit's own construction or configuration, through configure or
\* config, positional or keyword, hold no option name of options and hold
\* every option the caller passed that no hook declares, with its value.
C10Step ==
    (last.op = "install" /\ last'.op \in {"construct", "configure", "config"}) =>
        \A i \in DOMAIN last'.events :
            LET e == last'.events[i]
                K == DOMAIN last.options \cup AllDeclared
            IN  /\ e.ev = "native_init" =>
                    /\ DOMAIN e.kw \cap DOMAIN last.options = {}
                    /\ Kept(e.kw, last'.kw, K)
                /\ e.ev = "native_configure" =>
                    /\ DOMAIN e.kw \cap DOMAIN last.options = {}
                    /\ Kept(e.kw, last'.kw, K)
                    /\ Len(e.args) = Len(last'.args)
                    /\ \A j \in DOMAIN e.args :
                          /\ e.args[j].none = last'.args[j].none
                          /\ ~e.args[j].none =>
                                /\ DOMAIN e.args[j].d \cap DOMAIN last.options = {}
                                /\ Kept(e.args[j].d, last'.args[j].d, K)

C10_DeclaredOptionsNeverReachNative == [][C10Step]_vars

(* ------------------------------------------------------------------ C11 *)

\* the widget was constructed under every hook that is installed now
Current == w.id # 0 /\ w.born = Len(closures)

\* C11: with any number of hooks installed, cget(key) on a widget constructed
\* after them returns what the per-instance store of the hook in force holds
\* for key when key is a declared option (the sentinel when it holds nothing),
\* without asking the toolkit; for any other key it returns or raises exactly
\* what the toolkit's own cget does on that widget, which is called once.
C11_CgetDispatch ==
    (last.op = "cget" /\ Current) =>
        IF last.key \in AllDeclared
        THEN LET store == w.attrs[StoreAttr(Owner(last.key))]
             IN  /\ last.err = ""
                 /\ last.ret = IF last.key \in DOMAIN store THEN store[last.key] ELSE NULL
                 /\ Positions(last.events, "native_cget") = {}
        ELSE LET n == native_cget(Frame(w, <<>>), last.key)
             IN  /\ last.err = n.err
                 /\ last.ret = n.ret
                 /\ Cardinality(Positions(last.events, "native_cget")) = 1

\* under two hooks, cget of an option of the inner one has passed the outer one
C11_Witness ==
    /\ last.op = "cget" /\ Current /\ Len(closures) = 2
    /\ last.key \in Declared(1) \ Declared(2)
    /\ last.err = "" /\ last.ret \in Values

(* ------------------------------------------------------------------ C12 *)

\* the hooks whose replacement of op was entered during a call, in order
RECURSIVE EnterLayers(_, _)
EnterLayers(events, op) ==
    IF events = <<>> THEN <<>>
    ELSE (IF events[1].ev = "enter" /\ events[1].op = op
          THEN <<events[1].layer>> ELSE <<>>) \o EnterLayers(Tail(events), op)

\* the hooks from the outermost down to the first one installed
OuterFirst == [i \in Layers |-> Len(closures) + 1 - i]

\* C12: the k hooks installed under k different names form a chain of depth
\* k, the latest outermost: the class methods are those of hook k, the capsule
\* of hook f holds the five functions of hook f-1 (the toolkit's for f = 1),
\* whatever was installed later; one construction enters the __init__ of every
\* hook exactly once, outermost first, and then the toolkit's own once; one
\* configure or config call on the widget so constructed enters the configure
\* of every hook exactly once and then the toolkit's own once.
C12_ChainInInstallOrder ==
    /\ \A f, g \in Layers : closures[f].name = closures[g].name => f = g
    /\ DOMAIN ttkWidget.attrs = {closures[f].name : f \in Layers}
    /\ \A m \in {"init", "config", "configure", "cget", "keys"} : ttkWidget[m] = Len(closures)
    /\ \A f \in Layers :
          Capsule(closures[f].name) =
              [original_init |-> f - 1, original_config |-> f - 1,
               original_configure |-> f - 1, original_cget |-> f - 1,
               original_keys |-> f - 1]
    /\ last.op = "construct" =>
          /\ EnterLayers(last.events, "init") = OuterFirst
          /\ Cardinality(Positions(last.events, "native_init")) = 1
          /\ \A i \in Positions(last.events, "enter") :
                \A j \in Positions(last.events, "native_init") : i < j
    /\ (IsConfigure(last) /\ Current) =>
          /\ EnterLayers(last.events, "configure") = OuterFirst
          /\ Cardinality(Positions(last.events, "native_configure")) = 1
          /\ \A i \in Positions(last.events, "enter") :
                \A j \in Positions(last.events, "native_configure") : i < j

\* a configure call has gone through two hooks to the toolkit
C12_Witness ==
    /\ IsConfigure(last) /\ Current /\ Len(closures) = 2
    /\ EnterLayers(last.events, "configure") = <<2, 1>>
    /\ Positions(last.events, "native_configure") # {}

(* ------------------------------------------------------------------ C13 *)

\* no two hooks declare the same option name
Disjoint == \A f, g \in Layers : f # g => Declared(f) \cap Declared(g) = {}

\* what widget.cget(key) comes to on widget wd
Query(wd, key) == Outcome(CallCget(ttkWidget.cget, Frame(wd, <<>>), key))

\* C13: hooks with pairwise disjoint option names do not interfere.  A
\* construction attaches one store per hook, each under an attribute of its
\* own, and cget of every declared option then returns the value supplied or
\* the default; a configure call on that widget leaves cget of every declared
\* option it does not supply as it was, makes cget of one it supplies return
\* the value supplied last, and calls the updater of no hook but the one that
\* declares the option being set.
C13Step ==
    /\ (last'.op = "construct" /\ last'.err = "" /\ Disjoint) =>
          /\ \A f \in Layers :
                Cardinality({i \in Positions(last'.events, "attach") :
                                last'.events[i].layer = f}) = 1
          /\ \A f, g \in Layers : f # g => StoreAttr(f) # StoreAttr(g)
          /\ \A f \in Layers : \A o \in Declared(f) :
                Query(w', o) = [err |-> "",
                                ret |-> PopValue(last'.kw, o, closures[f].options[o])]
    /\ (IsConfigure(last') /\ Current /\ Disjoint) =>
          /\ \A o \in AllDeclared :
                Query(w', o) = IF Supplied(last', o) = <<>> THEN Query(w, o)
                               ELSE [err |-> "",
                                     ret |-> Supplied(last', o)[Len(Supplied(last', o))]]
          /\ \A i \in Positions(last'.events, "update") :
                /\ Supplied(last', last'.events[i].option) # <<>>
                /\ last'.events[i].option \in Declared(last'.events[i].layer)

C13_DisjointHooksDoNotInterfere == [][C13Step]_vars

(* ------------------------------------------------------------------ C14 *)

\* the values the updater is called with when the values vals are applied one
\* after the other to an option that holds held
RECURSIVE Notified(_, _)
Notified(held, vals) ==
    IF vals = <<>> THEN <<>>
    ELSE (IF vals[1] # held THEN <<vals[1]>> ELSE <<>>) \o Notified(vals[1], Tail(vals))

\* C14: when one configure call supplies a declared option in its positional
\* group and in its keywords, the groups are applied in that order: afterwards
\* cget returns the value of the last group that supplied the option, and the
\* updater has been called once for each group whose value differs from what
\* was stored when that group was applied; a positional group that is None is
\* passed over and the call is that of its keywords.
C14Step ==
    (IsConfigure(last') /\ Current) =>
        \A o \in AllDeclared :
            Supplied(last', o) # <<>> =>
                /\ UpdateValues(last'.events, Owner(o), o) =
                      Notified(getter(Frame(w, <<>>), Owner(o), o).val, Supplied(last', o))
                /\ Query(w', o) = [err |-> "",
                                   ret |-> Supplied(last', o)[Len(Supplied(last', o))]]
                /\ last'.err = ""

C14_GroupsInOrderLastWins == [][C14Step]_vars

\* a call gave one option two values and the updater heard both, in order
C14_Witness ==
    /\ last.op = "configure" /\ Current
    /\ \E o \in AllDeclared :
        /\ Len(Supplied(last, o)) = 2
        /\ Supplied(last, o)[1] # Supplied(last, o)[2]
        /\ UpdateValues(last.events, Owner(o), o) = Supplied(last, o)
        /\ Query(w, o).ret = Supplied(last, o)[2]

(* ------------------------------------------------------------------ C15 *)

\* the calls that can run an updater
Notifying == {"construct", "configure", "config"}

NoRepeat(seq) == \A i \in 1..(Len(seq) - 1) : seq[i] # seq[i + 1]

\* C16: store and notifications stay in step.  A construction calls the
\* updater for every declared option, and cget then returns the value of the
\* last of those calls; a configure call on a widget constructed under the
\* hook either calls the updater for an option, with a first value other than
\* the one cget returned before (the value of the previous call), no two
\* consecutive values equal, and cget then returns the last value, or does not
\* call it and leaves what cget returns as it was.
C16Step ==
    \A f \in Layers : \A o \in Declared(f) :
        Owner(o) = f =>
            LET U == UpdateValues(last'.events, f, o)
            IN  /\ (last'.op = "construct" /\ last'.err = "") =>
                      /\ U # <<>> /\ NoRepeat(U)
                      /\ Query(w', o) = [err |-> "", ret |-> U[Len(U)]]
                /\ (IsConfigure(last') /\ w.born >= f) =>
                      IF U = <<>> THEN Query(w', o) = Query(w, o)
                      ELSE /\ NoRepeat(<<Query(w, o).ret>> \o U)
                           /\ Query(w', o) = [err |-> "", ret |-> U[Len(U)]]

C16_StoreAndNotificationsInStep == [][C16Step]_vars

(* ------------------------------------------------------------------ C17 *)

\* C17: with two or more hooks installed, whenever an updater is called
\* during a construction the store of every installed hook is attached to the
\* widget already, so that a configure or cget call made on the widget from
\* inside the callback completes without error.
C17_AllStoresAttachedAtCallback ==
    (last.op = "construct" /\ Len(closures) >= 2) =>
        \A i \in Positions(last.events, "update") :
            /\ \A g \in Layers : StoreAttr(g) \in last.events[i].stores
            /\ last.events[i].reenter = ""
            /\ last.events[i].cget.err = ""

(* ------------------------------------------------------------------ C18 *)

\* the option names a configure call supplies
SuppliedNames(call) ==
    DOMAIN call.kw \cup
    UNION {DOMAIN call.args[i].d : i \in {j \in DOMAIN call.args : ~call.args[j].none}}

\* the native_configure events of a call
NativeConfigures(call) ==
    {call.events[i] : i \in Positions(call.events, "native_configure")}

\* C18: a configure call that supplies no declared option, on any widget, one
\* constructed before a hook was installed included, calls no updater, changes
\* no stored value, raises no error of its own and hands the caller's
\* arguments unchanged to the toolkit's configure, whose result it returns.
C18Step ==
    (IsConfigure(last') /\ SuppliedNames(last') \cap AllDeclared = {}) =>
        LET n == native_configure(Frame(w, <<>>), last'.args, last'.kw)
        IN  /\ Positions(last'.events, "update") = {}
            /\ w'.attrs = w.attrs
            /\ last'.err = n.err
            /\ last'.ret = n.ret
            /\ w'.native = n.self.native
            /\ NativeConfigures(last') =
                  {[ev |-> "native_configure", args |-> last'.args, kw |-> last'.kw]}

C18_TransparentWithoutDeclaredOptions == [][C18Step]_vars

====
